---- MODULE Spec2Model ----
(***************************************************************************)
(* A model of the DeepLX worker (src/index.js): the translation dispatcher *)
(* deeplxTranslate with its shared response cache and detached cache       *)
(* stores, and the HTTP layer in front of it (authentication, routing and  *)
(* the three translation endpoints).                                       *)
(*                                                                         *)
(* JavaScript strings that the code takes apart (texts, language codes)    *)
(* are sequences of one-character strings; a possibly-undefined string is  *)
(* the record [def, s].  Strings that are only compared (tokens, the       *)
(* session credential, messages) are TLA+ strings, with "<undefined>" for  *)
(* the value undefined.                                                    *)
(***************************************************************************)
EXTENDS Integers, Sequences, FiniteSets, TLC

VARIABLES
    env,      \* the worker's configuration: env.TOKEN, env.DL_SESSION
    cache,    \* caches.default: a set of [key, val] entries, one per key
    pending,  \* cache.put promises handed to ctx.waitUntil, not yet settled
    pc,       \* pc[r]: where request r is: "idle", "match", "fetch", "done"
    req,      \* req[r]: the HTTP request and the arguments of deeplxTranslate
    posted,   \* posted[r]: the envelope of request r's backend call in flight
    res,      \* res[r]: how deeplxTranslate ended: returned a result or threw
    resp,     \* resp[r]: how fetch() ended: an HTTP response, or an exception
    ops,      \* ops[r]: what request r did to the cache and the backend, and
              \* what the backend replied
    after,    \* after[r]: the requests that had ended when r was received
    calc      \* a pure function of the pipeline applied to sample inputs:
              \* the function, its inputs and, once applied, its outputs

vars == <<env, cache, pending, pc, req, posted, res, resp, ops, after, calc>>

(***************************** bounds **************************************)
\* Requests in flight at the same time.
NumReq == 2
\* Detached cache stores that may be unsettled at the same time.
MaxPending == 2
\* The latest time, in milliseconds, Date.now() returns to a sampled call.
MaxTime == 12
\* How far above the least one the random parts of sampled ids go.
RandSpan == 30

Reqs == 1..NumReq

(************************** JavaScript values ******************************)
UNDEFINED == "<undefined>"
Undefined == [def |-> FALSE, s |-> <<>>]
S(chars) == [def |-> TRUE, s |-> chars]
\* !v for a string or undefined: undefined and '' are falsy.
Falsy(v) == ~v.def \/ v.s = <<>>

\* String.prototype.toUpperCase, character by character.
UpperChar(c) ==
    CASE c = "a" -> "A" [] c = "u" -> "U" [] c = "t" -> "T" [] c = "o" -> "O"
      [] c = "f" -> "F" [] c = "r" -> "R" [] c = "j" -> "J" [] c = "e" -> "E"
      [] c = "n" -> "N" [] c = "h" -> "H" [] c = "i" -> "I" [] c = "d" -> "D"
      [] OTHER -> c

toUpperCase(s) == [k \in 1..Len(s) |-> UpperChar(s[k])]

\* encodeURIComponent: letters, digits and - _ . ! ~ * ' ( ) are kept, every
\* other character becomes its percent-encoded UTF-8 bytes.
EncodeChar(c) ==
    CASE c = " "  -> <<"%", "2", "0">>
      [] c = "/"  -> <<"%", "2", "F">>
      [] c = "\n" -> <<"%", "0", "A">>
      [] c = "#"  -> <<"%", "2", "3">>
      [] c = "?"  -> <<"%", "3", "F">>
      [] c = "%"  -> <<"%", "2", "5">>
      [] OTHER    -> <<c>>

RECURSIVE encodeURIComponent(_)
encodeURIComponent(s) ==
    IF s = <<>> THEN <<>>
    ELSE EncodeChar(Head(s)) \o encodeURIComponent(Tail(s))

(**************************** deeplxTranslate ******************************)
\* line 91: the source language the request is made with.
FinalSourceLang(sourceLang) ==
    IF Falsy(sourceLang) \/ sourceLang.s = <<"a", "u", "t", "o">>
    THEN <<"E", "N">>
    ELSE toUpperCase(sourceLang.s)

\* line 92 (targetLang is a string here).
FinalTargetLang(targetLang) == toUpperCase(targetLang.s)

\* The path of a URL cut at its "/" characters.
RECURSIVE PathSegments(_)
PathSegments(chars) ==
    IF chars = <<>> THEN << <<>> >>
    ELSE LET rest == PathSegments(Tail(chars)) IN
         IF Head(chars) = "/" THEN << <<>> >> \o rest
         ELSE << <<Head(chars)>> \o Head(rest) >> \o Tail(rest)

\* The URL parser's path state, as new Request(url) runs it: a "." segment
\* is dropped and a ".." segment takes the segment before it away; when
\* one of them ends the path, the path ends with an empty segment.
RECURSIVE RemoveDotSegments(_, _)
RemoveDotSegments(segments, path) ==
    IF segments = <<>> THEN path
    ELSE LET seg == Head(segments)
             last == Len(segments) = 1
             slash == IF last THEN << <<>> >> ELSE <<>>
         IN  IF seg = <<".", ".">>
             THEN RemoveDotSegments(Tail(segments),
                    (IF path = <<>> THEN path
                     ELSE SubSeq(path, 1, Len(path) - 1)) \o slash)
             ELSE IF seg = <<".">>
             THEN RemoveDotSegments(Tail(segments), path \o slash)
             ELSE RemoveDotSegments(Tail(segments), path \o <<seg>>)

\* The path serialised: "/" before every segment.
RECURSIVE SerializePath(_)
SerializePath(path) ==
    IF path = <<>> THEN <<>>
    ELSE <<"/">> \o Head(path) \o SerializePath(Tail(path))

\* line 95: the URL of the cache key request, as new Request(url) holds it.
\* The language codes go into the template as they are, the text through
\* encodeURIComponent.
CacheKey(finalSourceLang, finalTargetLang, translateText) ==
    <<"https://deeplx.cache">>
        \o SerializePath(RemoveDotSegments(PathSegments(
                finalSourceLang \o <<"/">> \o finalTargetLang \o <<"/">>
                    \o encodeURIComponent(translateText)), <<>>))

\* The key of a call with arguments a (a.targetLang defined).
KeyOf(a) ==
    CacheKey(FinalSourceLang(a.sourceLang), FinalTargetLang(a.targetLang),
             a.translateText.s)

\* A slip: only an undefined text is refused.
NoTextOnlyUndefined(translateText) == ~translateText.def
\* line 82: !translateText
NoText(translateText) == Falsy(translateText)

\* lines 83-87
NoTextResult ==
    [code |-> 400, message |-> "No text to translate.", cached |-> FALSE]

\* A slip: the lookup never finds anything.
CacheMatchNothing(c, key) == {}
\* cache.match(cacheKey): the entries stored under the key (none or one).
CacheMatchOf(c, key) == {e \in c : e.key = key}

\* A slip: the stored result is returned as it was stored.
CachedResultUnmarked(stored) == stored
\* lines 101-103: the stored result, marked as a cache hit.
CachedResult(stored) == [stored EXCEPT !.cached = TRUE]

\* lines 36-37: Math.floor(Math.random() * 99999) + 100000, times 1000.
\* The requests of the pipeline all draw the same random part: the id is
\* carried from the envelope to the result and decides nothing on the way.
RandomParts == {199998}
\* line 36: the least random part.
RandFrom == 100000
getRandomNumber(rand) == rand * 1000

\* String.prototype.split('i'): the pieces between the 'i' characters.
RECURSIVE SplitAtI(_)
SplitAtI(text) ==
    IF text = <<>> THEN << <<>> >>
    ELSE LET rest == SplitAtI(Tail(text)) IN
         IF Head(text) = "i" THEN << <<>> >> \o rest
         ELSE << <<Head(text)>> \o Head(rest) >> \o Tail(rest)

\* A slip: the text is put in lower case before it is cut.
getICountAnyCase(translateText) ==
    Len(SplitAtI([k \in 1..Len(translateText) |->
                    IF translateText[k] = "I" THEN "i" ELSE translateText[k]])) - 1
\* lines 27-29
getICount(translateText) == Len(SplitAtI(translateText)) - 1

\* lines 45-52, ts being what Date.now() returns.
getTimeStamp(iCount, ts) ==
    IF iCount # 0
    THEN ts - (ts % (iCount + 1)) + (iCount + 1)
    ELSE ts

\* Date.now() when a request of the pipeline is built: the timestamp is
\* carried in the envelope and decides nothing on the way.
Clock == {1000003}

\* lines 107-127 and 146-148: what is posted to the backend.
PostData(a, id, ts) ==
    [id |-> id,
     source_lang_user_selected |-> FinalSourceLang(a.sourceLang),
     target_lang |-> FinalTargetLang(a.targetLang),
     text |-> a.translateText.s,
     timestamp |-> getTimeStamp(getICount(a.translateText.s), ts),
     cookie |-> IF a.dlSession # "" THEN "dl_session=" \o a.dlSession
                ELSE UNDEFINED]
NoPost == [id |-> 0]

(* The body of the backend call is a sequence of pieces: the characters    *)
(* { } [ ] : , " \ and the space are pieces of their own, a run of other    *)
(* characters (a word, a number) may be one piece, and the word method is   *)
(* always one piece.                                                        *)
Quote == "\""
\* JSON.stringify of a string: " and \ are escaped, a newline becomes \n.
RECURSIVE EscapeJSON(_)
EscapeJSON(text) ==
    IF text = <<>> THEN <<>>
    ELSE (CASE Head(text) = Quote -> <<"\\", Quote>>
            [] Head(text) = "\\" -> <<"\\", "\\">>
            [] Head(text) = "\n" -> <<"\\", "n">>
            [] OTHER -> <<Head(text)>>) \o EscapeJSON(Tail(text))
JSONString(text) == <<Quote>> \o EscapeJSON(text) \o <<Quote>>
JSONKey(name) == <<Quote, name, Quote, ":">>

\* line 129: JSON.stringify(postData), the fields in the order of lines
\* 111-127.
Stringify(postData) ==
    <<"{">> \o JSONKey("jsonrpc") \o JSONString(<<"2.0">>)
    \o <<",">> \o JSONKey("method") \o JSONString(<<"LMT_handle_texts">>)
    \o <<",">> \o JSONKey("id") \o <<ToString(postData.id)>>
    \o <<",">> \o JSONKey("params") \o <<"{">>
        \o JSONKey("splitting") \o JSONString(<<"newlines">>)
        \o <<",">> \o JSONKey("lang") \o <<"{">>
            \o JSONKey("source_lang_user_selected")
            \o JSONString(postData.source_lang_user_selected)
            \o <<",">> \o JSONKey("target_lang")
            \o JSONString(postData.target_lang) \o <<"}">>
        \o <<",">> \o JSONKey("texts") \o <<"[", "{">>
            \o JSONKey("text") \o JSONString(postData.text)
            \o <<",">> \o JSONKey("requestAlternatives") \o <<"3">>
            \o <<"}", "]">>
        \o <<",">> \o JSONKey("timestamp") \o <<ToString(postData.timestamp)>>
    \o <<"}", "}">>

\* String.prototype.indexOf: where pattern first occurs in body, 0 if nowhere.
IndexOf(body, pattern) ==
    LET at == {k \in 1..(Len(body) - Len(pattern) + 1) :
                  SubSeq(body, k, k + Len(pattern) - 1) = pattern}
    IN  IF at = {} THEN 0 ELSE CHOOSE k \in at : \A j \in at : k <= j

\* String.prototype.replace(pattern, replacement) with a string pattern:
\* the first occurrence is replaced.
Replace(body, pattern, replacement) ==
    LET k == IndexOf(body, pattern) IN
    IF k = 0 THEN body
    ELSE SubSeq(body, 1, k - 1) \o replacement
            \o SubSeq(body, k + Len(pattern), Len(body))

\* A slip: the two rewritings taken for one another.
handlerBodyMethodSwapped(random, body) ==
    IF (random + 5) % 29 = 0 \/ (random + 3) % 13 = 0
    THEN Replace(body, <<Quote, "method", Quote, ":", Quote>>,
                 <<Quote, "method", Quote, ":", " ", Quote>>)
    ELSE Replace(body, <<Quote, "method", Quote, ":", Quote>>,
                 <<Quote, "method", Quote, " ", ":", " ", Quote>>)
\* lines 61-67
handlerBodyMethod(random, body) ==
    IF (random + 5) % 29 = 0 \/ (random + 3) % 13 = 0
    THEN Replace(body, <<Quote, "method", Quote, ":", Quote>>,
                 <<Quote, "method", Quote, " ", ":", " ", Quote>>)
    ELSE Replace(body, <<Quote, "method", Quote, ":", Quote>>,
                 <<Quote, "method", Quote, ":", " ", Quote>>)

(* What the backend call can do: fetch rejects (fault), or a response with   *)
(* a status, a body that parses as JSON or does not, and in the JSON an      *)
(* error object, a result with a texts list, both or neither.                *)
Translations == {"T1", "T2"}
TextItem(t) ==
    [text |-> t, alternatives |-> IF t = "T1" THEN <<>> ELSE <<"A1", "A2">>]
Outcome(fault, status, parses, error, texts) ==
    [fault |-> fault, status |-> status, parses |-> parses, error |-> error,
     texts |-> texts, lang |-> "EN", body |-> "busy"]
BackendOutcomes ==
    {Outcome(TRUE, 0, FALSE, UNDEFINED, <<>>)}                \* network fault
    \cup {Outcome(FALSE, 429, TRUE, UNDEFINED, <<>>)}         \* throttled
    \cup {Outcome(FALSE, st, FALSE, UNDEFINED, <<>>) : st \in {403, 503}}
    \cup {Outcome(FALSE, 200, FALSE, UNDEFINED, <<>>)}        \* not JSON
    \cup {Outcome(FALSE, 200, TRUE, "quota", <<TextItem("T1")>>)}  \* error
    \cup {Outcome(FALSE, 200, TRUE, UNDEFINED, <<>>)}         \* no texts
    \cup {Outcome(FALSE, 200, TRUE, UNDEFINED, <<TextItem(t)>>) :
              t \in Translations}

ErrorResult(code, message) ==
    [code |-> code, message |-> message, cached |-> FALSE]

\* response.ok
Ok(status) == status >= 200 /\ status <= 299

\* lines 195-204
FinalResult(o, id, finalTargetLang, dlSession) ==
    [code |-> 200, id |-> id, data |-> o.texts[1].text,
     alternatives |-> o.texts[1].alternatives, source_lang |-> o.lang,
     target_lang |-> finalTargetLang,
     method |-> IF dlSession # "" THEN "Pro" ELSE "Free", cached |-> FALSE]

\* A slip: the payload's error object is not looked at.
InterpretNoErrorObject(o, id, finalTargetLang, dlSession) ==
    IF o.fault
    THEN ErrorResult(500, "An unexpected error occurred: network")
    ELSE IF ~Ok(o.status)
    THEN ErrorResult(o.status, "DeepL API error: " \o o.body)
    ELSE IF ~o.parses
    THEN ErrorResult(500, "An unexpected error occurred: syntax")
    ELSE IF o.texts = <<>>
    THEN ErrorResult(500, "Translation failed, no text returned.")
    ELSE FinalResult(o, id, finalTargetLang, dlSession)

\* lines 150-225: the result deeplxTranslate returns for backend outcome o.
Interpret(o, id, finalTargetLang, dlSession) ==
    IF o.fault
    THEN ErrorResult(500, "An unexpected error occurred: network")
    ELSE IF o.status = 429
    THEN ErrorResult(429,
        "Too many requests, your IP has been blocked by DeepL temporarily.")
    ELSE IF ~Ok(o.status)
    THEN ErrorResult(o.status, "DeepL API error: " \o o.body)
    ELSE IF ~o.parses
    THEN ErrorResult(500, "An unexpected error occurred: syntax")
    ELSE IF o.error # UNDEFINED
    THEN ErrorResult(500, "DeepL API returned an error: " \o o.error)
    ELSE IF o.texts = <<>>
    THEN ErrorResult(500, "Translation failed, no text returned.")
    ELSE FinalResult(o, id, finalTargetLang, dlSession)

\* A slip: the result is stored whatever the cache policy.
StoresAlways(result, useCache) == result.code = 200
\* A slip: the store is made before the error paths have returned.
StoresErrors(result, useCache) == useCache
\* lines 157-207: the error paths return before line 207, where the
\* successful result is stored when the cache is in use.
Stores(result, useCache) == useCache /\ result.code = 200

(**************************** the HTTP layer *******************************)
\* String.prototype.split(' ') of a header value given as its words with the
\* " " characters between them.
RECURSIVE Split(_)
Split(h) ==
    IF h = <<>> THEN <<"">>
    ELSE IF Head(h) = " " THEN <<"">> \o Split(Tail(h))
    ELSE LET rest == Split(Tail(h)) IN <<Head(h) \o Head(rest)>> \o Tail(rest)

\* request.headers.get('Authorization') is null when the header is absent.
NoHeader == <<>>

\* lines 239-244
TokenInHeader(authHeader) ==
    LET parts == Split(authHeader) IN
    IF /\ authHeader # NoHeader
       /\ Len(parts) = 2
       /\ parts[1] \in {"Bearer", "DeepL-Auth-Key"}
    THEN parts[2]
    ELSE ""

(* lines 233-259: "401" for the rejection, "next" when the middleware        *)
(* returns nothing.  request.query is a property the router adds inside      *)
(* router.handle (line 395); the middleware runs before that (line 389), on  *)
(* the request as fetch received it, and reading .token of an undefined      *)
(* request.query throws a TypeError.                                         *)
authMiddleware(request, e) ==
    IF ~request.query.def THEN "TypeError"
    ELSE IF /\ request.query.token # e.TOKEN
            /\ TokenInHeader(request.authorization) # e.TOKEN
    THEN "401"
    ELSE "next"

\* lines 278, 335, 384
IsPrivate(e) == e.TOKEN # UNDEFINED /\ e.TOKEN # ""

\* url.pathname.startsWith(prefix), a path being its prefix and what follows.
StartsWith(path, prefix) == path[1] = prefix

\* line 388: && binds tighter than ||.
AuthApplies(e, path) ==
    \/ IsPrivate(e) /\ StartsWith(path, "/translate")
    \/ StartsWith(path, "/v1/translate")
    \/ StartsWith(path, "/v2/translate")

\* lines 263, 301, 303, 334, 373: the route the router picks.
Route(method, path) ==
    IF method = "GET" /\ path = <<"/">> THEN "root"
    ELSE IF method = "POST" /\ path = <<"/translate">> THEN "translate"
    ELSE IF method = "POST" /\ path = <<"/v1/translate">> THEN "v1"
    ELSE IF method = "POST" /\ path = <<"/v2/translate">> THEN "v2"
    ELSE "404"

Response(status, contentType, body) ==
    [kind |-> "response", status |-> status, contentType |-> contentType,
     body |-> body]
JSON == "application/json"
\* The content type of a Response made from a string with no headers given.
TEXT == "text/plain;charset=UTF-8"

\* lines 247-257
InvalidTokenResponse ==
    Response(401, JSON, [code |-> 401, message |-> "Invalid access token"])
\* lines 264-274
RootResponse ==
    Response(200, JSON,
        [code |-> 200,
         message |-> "DeepLX-Worker: A Cloudflare Worker implementation of DeepLX.",
         repository |-> "https://github.com/OwO-Network/DeepLX"])
\* lines 373-378
NotFoundResponse == Response(404, TEXT, [code |-> 404, message |-> "Not Found"])
\* lines 306-311
NoSessionResponse ==
    Response(401, TEXT,
        [code |-> 401,
         message |-> "DL_SESSION is not configured in worker environment."])

\* A JavaScript value used as a condition: the body's cache field.
Truthy(v) == v = "true"

\* A slip: the default taken for private mode and public mode swapped.
UseCacheSwapped(route, e, body) ==
    IF body.cache # UNDEFINED THEN Truthy(body.cache)
    ELSE IF route = "v1" THEN FALSE
    ELSE IsPrivate(e)

\* lines 290 and 343; line 323 for /v1.
UseCache(route, e, body) ==
    IF body.cache # UNDEFINED THEN Truthy(body.cache)
    ELSE IF route = "v1" THEN FALSE
    ELSE ~IsPrivate(e)

\* Array.prototype.join('\n')
RECURSIVE JoinLines(_)
JoinLines(items) ==
    IF items = <<>> THEN <<>>
    ELSE IF Len(items) = 1 THEN items[1]
    ELSE items[1] \o <<"\n">> \o JoinLines(Tail(items))

\* line 344: the text /v2/translate dispatches.
TranslateText(text) ==
    IF text.isArray THEN [def |-> TRUE, s |-> JoinLines(text.items)]
    ELSE [def |-> text.def, s |-> text.s]

\* line 304
DlSession(e) == IF e.DL_SESSION = UNDEFINED THEN "" ELSE e.DL_SESSION

(******************************* state *************************************)
NoHttp == [method |-> "-"]
NoArgs == [called |-> FALSE]
NoResult == [kind |-> "none"]
Returned(v) == [kind |-> "returned", value |-> v]
Threw(e) == [kind |-> "threw", error |-> e]
NoReply == [fault |-> FALSE, status |-> 0]
NoCalc == [fn |-> "-"]
NoOps ==
    [lookup |-> FALSE, hit |-> FALSE, backend |-> FALSE, store |-> FALSE,
     reply |-> NoReply]

Args(sourceLang, targetLang, translateText, dlSession, useCache) ==
    [called |-> TRUE, sourceLang |-> sourceLang, targetLang |-> targetLang,
     translateText |-> translateText, dlSession |-> dlSession,
     useCache |-> useCache]

\* The text /translate and /v1/translate dispatch: body.text as it is (a
\* string or undefined; a text list is sent to /v2/translate only).
BodyText(text) == [def |-> text.def, s |-> text.s]

\* lines 292, 325, 345: the call each handler makes.
HandlerArgs(route, e, body) ==
    IF route = "v2"
    THEN Args(S(<<"a", "u", "t", "o">>), body.target_lang,
              TranslateText(body.text), "", UseCache(route, e, body))
    ELSE Args(body.source_lang, body.target_lang, BodyText(body.text),
              IF route = "v1" THEN DlSession(e) ELSE "",
              UseCache(route, e, body))

\* A slip: the simple shape is answered for every result.
HandlerResponseSimple(route, out) ==
    IF out.kind = "threw" THEN out
    ELSE Response(out.value.code, JSON, out.value)

\* lines 293-298, 326-331, 347-368: the response made of what deeplxTranslate
\* did; what it throws leaves the handler and fetch as it is.
HandlerResponse(route, out) ==
    IF out.kind = "threw" THEN out
    ELSE IF route = "v2" /\ out.value.code = 200
    THEN Response(200, JSON,
            [translations |->
                <<[detected_source_language |-> out.value.source_lang,
                   text |-> out.value.data]>>,
             cached |-> out.value.cached])
    ELSE Response(out.value.code, JSON, out.value)

\* What the caller of request http gets when deeplxTranslate ends with out.
Respond(http, out) ==
    IF http = NoHttp THEN NoResult
    ELSE HandlerResponse(Route(http.method, http.path), out)

NoEnv == [TOKEN |-> UNDEFINED, DL_SESSION |-> UNDEFINED]
Envs == [TOKEN : {UNDEFINED, "", "tok"}, DL_SESSION : {UNDEFINED, "sess"}]

Idle ==
    /\ cache = {}
    /\ pending = {}
    /\ pc = [r \in Reqs |-> "idle"]
    /\ req = [r \in Reqs |-> [http |-> NoHttp, args |-> NoArgs]]
    /\ posted = [r \in Reqs |-> NoPost]
    /\ res = [r \in Reqs |-> NoResult]
    /\ resp = [r \in Reqs |-> NoResult]
    /\ ops = [r \in Reqs |-> NoOps]
    /\ after = [r \in Reqs |-> {}]

Init == env = NoEnv /\ Idle /\ calc = NoCalc

\* The worker is deployed with any configuration.
InitHttp == env \in Envs /\ Idle /\ calc = NoCalc

Ended == {r \in Reqs : pc[r] = "done"}

\* Request r ends without deeplxTranslate having been called.
Answer(r, http, response) ==
    /\ pc' = [pc EXCEPT ![r] = "done"]
    /\ req' = [req EXCEPT ![r] = [http |-> http, args |-> NoArgs]]
    /\ resp' = [resp EXCEPT ![r] = response]
    /\ res' = [res EXCEPT ![r] = NoResult]
    /\ ops' = [ops EXCEPT ![r] = NoOps]
    /\ after' = [after EXCEPT ![r] = Ended]
    /\ UNCHANGED <<calc, env, cache, pending, posted>>

\* deeplxTranslate ends with out, and with it the handler that called it.
End(r, http, out) ==
    /\ pc' = [pc EXCEPT ![r] = "done"]
    /\ res' = [res EXCEPT ![r] = out]
    /\ resp' = [resp EXCEPT ![r] = Respond(http, out)]

\* lines 107-155: the request is built and posted, the id drawn at random.
Post(r, a) ==
    /\ pc' = [pc EXCEPT ![r] = "fetch"]
    /\ \E rand \in RandomParts, ts \in Clock :
         posted' = [posted EXCEPT ![r] = PostData(a, getRandomNumber(rand), ts)]
    /\ UNCHANGED <<res, resp>>

(* deeplxTranslate from its entry to its first suspension (lines 81-109):   *)
(* it returns the 400 result, throws on targetLang.toUpperCase(), awaits    *)
(* cache.match, or, the cache not in use, posts to the backend.             *)
Begin(r, http, a) ==
    /\ req' = [req EXCEPT ![r] = [http |-> http, args |-> a]]
    /\ after' = [after EXCEPT ![r] = Ended]
    /\ ops' = [ops EXCEPT ![r] = NoOps]
    /\ UNCHANGED <<calc, env, cache, pending>>
    /\ IF NoText(a.translateText)
       THEN End(r, http, Returned(NoTextResult)) /\ posted' = posted
       ELSE IF ~a.targetLang.def
       THEN End(r, http, Threw("TypeError")) /\ posted' = posted
       ELSE IF a.useCache
       THEN /\ pc' = [pc EXCEPT ![r] = "match"]
            /\ UNCHANGED <<res, resp, posted>>
       ELSE Post(r, a)

\* The arguments deeplxTranslate is called with.
Langs == {Undefined, S(<<"f", "r">>)}
Targets == {Undefined, S(<<"j", "a">>)}
Texts == {Undefined, S(<<>>), S(<<"h", "i">>)}
Sessions == {"", "sess"}
CallArgs ==
    {Args(sl, tl, tx, dl, uc) : sl \in Langs, tl \in Targets, tx \in Texts,
                                dl \in Sessions, uc \in BOOLEAN}

\* The arguments of calls that share one cache key.
PairArgs ==
    {Args(Undefined, S(<<"j", "a">>), S(<<"h", "i">>), "", uc) :
        uc \in BOOLEAN}

\* A call of deeplxTranslate with arguments from A.
Call(r, A) ==
    /\ pc[r] = "idle"
    /\ \E a \in A : Begin(r, NoHttp, a)

\* The requests the worker receives.
Queries ==
    {[def |-> FALSE, token |-> UNDEFINED]}
        \cup {[def |-> TRUE, token |-> t] : t \in {UNDEFINED, "tok", "bad"}}
Headers ==
    {NoHeader, <<"Bearer", " ", "tok">>, <<"DeepL-Auth-Key", " ", "tok">>,
     <<"Bearer", " ", "bad">>, <<"Basic", " ", "tok">>, <<"tok">>,
     <<"Bearer", " ", " ", "tok">>}
Paths ==
    {<<"/">>, <<"/translate">>, <<"/v1/translate">>, <<"/v2/translate">>,
     <<"/translate", "/x">>}
NoBody == [json |-> FALSE]
StringText(v) == [isArray |-> FALSE, def |-> v.def, s |-> v.s, items |-> <<>>]
ArrayText(items) == [isArray |-> TRUE, def |-> TRUE, s |-> <<>>, items |-> items]
Bodies ==
    {NoBody} \cup
    [json : {TRUE}, text : {StringText(Undefined), StringText(S(<<"h", "i">>))},
     source_lang : {Undefined}, target_lang : {S(<<"j", "a">>)},
     cache : {UNDEFINED, "true", "false"}]
\* The text lists sent to /v2/translate.
TextLists == {<<>>, << <<"h", "i">> >>, << <<"h", "i">>, <<"y", "o">> >>}
ListBodies ==
    [json : {TRUE}, text : {ArrayText(items) : items \in TextLists},
     source_lang : {Undefined}, target_lang : {S(<<"j", "a">>)},
     cache : {UNDEFINED, "true"}]
\* Every way of presenting a token, with no body and with a body that
\* names no text; every body with the token in the query string or with
\* none; and the text lists on /v2/translate.
HttpRequests ==
    [method : {"GET"}, path : Paths, query : Queries, authorization : Headers,
     body : {NoBody}]
    \cup [method : {"POST"}, path : Paths, query : Queries,
          authorization : Headers,
          body : {b \in Bodies : b.json => ~b.text.def /\ b.cache = UNDEFINED}]
    \cup [method : {"POST"}, path : Paths,
          query : {[def |-> TRUE, token |-> t] : t \in {UNDEFINED, "tok"}},
          authorization : {NoHeader}, body : Bodies]
    \cup [method : {"POST"}, path : {<<"/v2/translate">>},
          query : {[def |-> TRUE, token |-> t] : t \in {UNDEFINED, "tok"}},
          authorization : {NoHeader}, body : ListBodies]

(* fetch (lines 383-396) down to the first suspension of the handler the    *)
(* router picks: the authentication, the routing, the parsing of the body   *)
(* (request.json() rejects what is not JSON) and the call of                *)
(* deeplxTranslate.                                                         *)
Fetch(r, H) ==
    /\ pc[r] = "idle"
    /\ \E http \in H :
         LET auth == IF AuthApplies(env, http.path)
                     THEN authMiddleware(http, env) ELSE "next"
             route == Route(http.method, http.path)
         IN  IF auth = "TypeError"
             THEN Answer(r, http, Threw("TypeError"))
             ELSE IF auth = "401"
             THEN Answer(r, http, InvalidTokenResponse)
             ELSE IF route = "root"
             THEN Answer(r, http, RootResponse)
             ELSE IF route = "404"
             THEN Answer(r, http, NotFoundResponse)
             ELSE IF route = "v1" /\ DlSession(env) = ""
             THEN Answer(r, http, NoSessionResponse)
             ELSE IF ~http.body.json
             THEN Answer(r, http, Threw("SyntaxError"))
             ELSE Begin(r, http, HandlerArgs(route, env, http.body))

\* cache.match settles (lines 99-109): a hit returns the stored result, a
\* miss goes on to post to the backend.
CacheMatch(r) ==
    /\ pc[r] = "match"
    /\ LET found == CacheMatchOf(cache, KeyOf(req[r].args)) IN
       IF found # {}
       THEN /\ \E e \in found :
                 End(r, req[r].http, Returned(CachedResult(e.val)))
            /\ ops' = [ops EXCEPT ![r].lookup = TRUE, ![r].hit = TRUE]
            /\ posted' = posted
       ELSE /\ Post(r, req[r].args)
            /\ ops' = [ops EXCEPT ![r].lookup = TRUE]
    /\ UNCHANGED <<calc, env, cache, pending, req, after>>

\* The backend call settles (lines 150-225) and deeplxTranslate returns; a
\* successful result is handed to cache.put, which ctx.waitUntil keeps alive.
FetchReturns(r) ==
    /\ pc[r] = "fetch"
    /\ \E o \in BackendOutcomes :
         LET a == req[r].args
             result == Interpret(o, posted[r].id, FinalTargetLang(a.targetLang),
                                 a.dlSession)
             stores == Stores(result, a.useCache)
         IN  /\ stores => Cardinality(pending) < MaxPending
             /\ End(r, req[r].http, Returned(result))
             /\ pending' = IF stores
                           THEN pending \cup {[key |-> KeyOf(a), val |-> result]}
                           ELSE pending
             /\ ops' = [ops EXCEPT ![r].backend = TRUE, ![r].store = stores,
                                    ![r].reply = o]
    /\ posted' = [posted EXCEPT ![r] = NoPost]
    /\ UNCHANGED <<calc, env, cache, req, after>>

\* A slip: a completed store is added beside what the key held.
PutCompletesBeside ==
    \E p \in pending :
        /\ cache' = cache \cup {p}
        /\ pending' = pending \ {p}
        /\ UNCHANGED <<calc, env, pc, req, posted, res, resp, ops, after>>
\* A detached cache.put completes: the entry replaces what the key held.
PutCompletes ==
    \E p \in pending :
        /\ cache' = {e \in cache : e.key # p.key} \cup {p}
        /\ pending' = pending \ {p}
        /\ UNCHANGED <<calc, env, pc, req, posted, res, resp, ops, after>>

\* A slip: a failed store becomes the error result of a request that stored.
PutFailsSurfaced ==
    \E p \in pending :
        /\ pending' = pending \ {p}
        /\ \E r \in Reqs :
             /\ pc[r] = "done" /\ ops[r].store
             /\ res' = [res EXCEPT ![r] =
                    Returned(ErrorResult(500, "An unexpected error occurred: put"))]
        /\ UNCHANGED <<calc, env, cache, pc, req, posted, resp, ops, after>>
\* A detached cache.put fails: nothing is written and nobody is told.
PutFails ==
    \E p \in pending :
        /\ pending' = pending \ {p}
        /\ UNCHANGED <<calc, env, cache, pc, req, posted, res, resp, ops, after>>

\* An entry's max-age of 3600 s runs out (or the platform evicts it).
Expire ==
    \E e \in cache :
        /\ cache' = cache \ {e}
        /\ UNCHANGED <<calc, env, pending, pc, req, posted, res, resp, ops, after>>

\* The caller has its answer; the slot is free for the next request.
Forget(r) ==
    /\ pc[r] = "done"
    /\ pc' = [pc EXCEPT ![r] = "idle"]
    /\ req' = [req EXCEPT ![r] = [http |-> NoHttp, args |-> NoArgs]]
    /\ posted' = [posted EXCEPT ![r] = NoPost]
    /\ res' = [res EXCEPT ![r] = NoResult]
    /\ resp' = [resp EXCEPT ![r] = NoResult]
    /\ ops' = [ops EXCEPT ![r] = NoOps]
    /\ after' = [q \in Reqs |-> IF q = r THEN {} ELSE after[q] \ {r}]
    /\ UNCHANGED <<calc, env, cache, pending>>

\* Calls of deeplxTranslate one after the other, with every argument; the
\* stores they detach settle while later calls run.
Next ==
    \/ Call(1, CallArgs)
    \/ CacheMatch(1)
    \/ FetchReturns(1)
    \/ Forget(1)
    \/ PutCompletes
    \/ PutFails
    \/ Expire

Spec == Init /\ [][Next]_vars

\* Calls for one cache key, NumReq of them in flight at a time.
NextPair ==
    \/ \E r \in Reqs : Call(r, PairArgs)
    \/ \E r \in Reqs : CacheMatch(r)
    \/ \E r \in Reqs : FetchReturns(r)
    \/ \E r \in Reqs : Forget(r)
    \/ PutCompletes
    \/ PutFails
    \/ Expire

SpecPair == Init /\ [][NextPair]_vars

\* HTTP requests one after the other, under every configuration.
NextHttp ==
    \/ Fetch(1, HttpRequests)
    \/ CacheMatch(1)
    \/ FetchReturns(1)
    \/ Forget(1)
    \/ PutCompletes
    \/ PutFails
    \/ Expire

SpecHttp == InitHttp /\ [][NextHttp]_vars

(*************************** pure functions *******************************)
\* The functions of the pipeline that compute without the cache or the
\* backend, each applied to inputs drawn when the behaviour starts.
Quiet == UNCHANGED <<env, cache, pending, pc, req, posted, res, resp, ops, after>>

\* The normalised triples cache keys are made of: language codes are what
\* the request's body gave, upper-cased; the text is any non-empty string.
KeySources == {<<"E", "N">>, <<"D", "E">>, <<"E", "N", "/", "J", "A">>}
KeyTargets == {<<"J", "A">>, <<"Z", "H">>, <<"X">>, <<"J", "A", "/", "X">>}
KeyTexts ==
    {<<"h", "i">>, <<".">>, <<".", ".">>, <<"a", "/", "b">>, <<"a", " ", "b">>}
KeyTriples ==
    [finalSourceLang : KeySources, finalTargetLang : KeyTargets,
     translateText : KeyTexts]
KeyProbes ==
    {[fn |-> "cacheKey", in |-> <<a, b>>, out |-> <<>>] : a, b \in KeyTriples}

\* line 95 for two triples.
CacheKeyApplied ==
    /\ calc.fn = "cacheKey" /\ calc.out = <<>>
    /\ calc' = [calc EXCEPT !.out =
            <<CacheKey(calc.in[1].finalSourceLang, calc.in[1].finalTargetLang,
                       calc.in[1].translateText),
              CacheKey(calc.in[2].finalSourceLang, calc.in[2].finalTargetLang,
                       calc.in[2].translateText)>>]
    /\ Quiet

\* The language arguments deeplxTranslate normalises.
SourceLangs ==
    {Undefined, S(<<>>), S(<<"a", "u", "t", "o">>), S(<<"A", "U", "T", "O">>),
     S(<<"A", "u", "t", "o">>), S(<<"f", "r">>), S(<<"F", "R">>)}
TargetLangs == {S(<<"j", "a">>), S(<<"J", "A">>), S(<<"J", "a">>)}
LangProbes ==
    {[fn |-> "lang", in |-> Args(sl, tl, S(<<"h", "i">>), "", uc), out |-> <<>>] :
        sl \in SourceLangs, tl \in TargetLangs, uc \in BOOLEAN}

\* lines 91-95 and 111-127: the normalised languages, the cache key and the
\* envelope made of them.
LangApplied ==
    /\ calc.fn = "lang" /\ calc.out = <<>>
    /\ \E rand \in RandomParts, ts \in Clock :
         calc' = [calc EXCEPT !.out =
            [finalSourceLang |-> FinalSourceLang(calc.in.sourceLang),
             finalTargetLang |-> FinalTargetLang(calc.in.targetLang),
             cacheKey |-> KeyOf(calc.in),
             postData |-> PostData(calc.in, getRandomNumber(rand), ts)]]
    /\ Quiet

\* The texts whose 'i' characters are counted, and the times of the calls.
TimeTexts ==
    {<<"h", "o">>, <<"H", "I">>, <<"h", "i">>, <<"i", "I", "i">>,
     <<"i", "i", "x", "i">>, <<"i", "i", "I", "i", "i">>}
Times == 0..MaxTime
TimeProbes ==
    {[fn |-> "timestamp", in |-> [translateText |-> S(t), ts |-> ts],
      out |-> <<>>] : t \in TimeTexts, ts \in Times}

\* lines 108-109 and 125: the count, the timestamp and the envelope that
\* carries it.
TimestampApplied ==
    /\ calc.fn = "timestamp" /\ calc.out = <<>>
    /\ \E rand \in RandomParts :
         LET text == calc.in.translateText
             iCount == getICount(text.s)
         IN  calc' = [calc EXCEPT !.out =
                [iCount |-> iCount,
                 timestamp |-> getTimeStamp(iCount, calc.in.ts),
                 postData |-> PostData(Args(Undefined, S(<<"j", "a">>), text,
                                            "", FALSE),
                                       getRandomNumber(rand), calc.in.ts)]]
    /\ Quiet

\* The ids and the texts of the bodies that are made: texts without and
\* with the method key in them.
BodyRands == RandFrom..(RandFrom + RandSpan)
BodyTexts ==
    {<<"h", "i">>,
     <<Quote, "method", Quote, ":", Quote>>,
     <<"method", Quote, ":", Quote, "x">>,
     <<"\\", Quote, "method", Quote, ":", Quote, "\n">>}
BodyProbes ==
    {[fn |-> "body", in |-> [rand |-> rand, translateText |-> S(t)],
      out |-> <<>>] : rand \in BodyRands, t \in BodyTexts}

\* lines 107-130: the id, the envelope, its serialisation and the body.
BodyApplied ==
    /\ calc.fn = "body" /\ calc.out = <<>>
    /\ \E ts \in Clock :
         LET id == getRandomNumber(calc.in.rand)
             postData == PostData(Args(Undefined, S(<<"j", "a">>),
                                       calc.in.translateText, "", FALSE),
                                  id, ts)
             postStr == Stringify(postData)
         IN  calc' = [calc EXCEPT !.out =
                [id |-> id, postStr |-> postStr,
                 body |-> handlerBodyMethod(id, postStr)]]
    /\ Quiet

InitFn ==
    /\ env = NoEnv /\ Idle
    /\ calc \in KeyProbes \cup LangProbes \cup TimeProbes \cup BodyProbes

NextFn ==
    \/ CacheKeyApplied
    \/ LangApplied
    \/ TimestampApplied
    \/ BodyApplied

SpecFn == InitFn /\ [][NextFn]_vars

(******************************* claims ************************************)
Http(r) == req[r].http
Called(r) == req[r].args.called
Arg(r) == req[r].args
Value(r) == res[r].value
IsHttp(r) == Http(r) # NoHttp
TranslationEndpoints ==
    {<<"/translate">>, <<"/v1/translate">>, <<"/v2/translate">>}
PrivateMode == env.TOKEN \notin {UNDEFINED, ""}
\* The request carries the configured token in its query string, or in a
\* Bearer or DeepL-Auth-Key Authorization header.
CarriesToken(http) ==
    \/ http.query.def /\ http.query.token = env.TOKEN
    \/ http.authorization \in {<<"Bearer", " ", env.TOKEN>>,
                               <<"DeepL-Auth-Key", " ", env.TOKEN>>}
InvalidAccessToken ==
    [kind |-> "response", status |-> 401, contentType |-> "application/json",
     body |-> [code |-> 401, message |-> "Invalid access token"]]
Untouched(r) ==
    ~ops[r].lookup /\ ~ops[r].hit /\ ~ops[r].backend /\ ~ops[r].store
EmptyOrAbsent(text) == ~text.def \/ Len(text.s) = 0
Success(r) ==
    pc[r] = "done" /\ Called(r) /\ res[r].kind = "returned" /\ Value(r).code = 200

\* C1: in private mode a request to one of the three translation endpoints
\* that carries no matching token is answered 401 "Invalid access token", and
\* the dispatcher is not run for it: no lookup, no backend call, no store.
C1_UnauthorizedIs401 ==
    \A r \in Reqs :
        /\ pc[r] = "done" /\ IsHttp(r) /\ PrivateMode
        /\ Http(r).path \in TranslationEndpoints
        /\ ~CarriesToken(Http(r))
        => resp[r] = InvalidAccessToken /\ ~Called(r) /\ Untouched(r)

\* C2: in public mode no request to a translation endpoint or to the root
\* endpoint is rejected with 401 "Invalid access token", whatever token it
\* carries; in private mode the root endpoint is never rejected so either.
C2_PublicModeNever401 ==
    \A r \in Reqs :
        /\ pc[r] = "done" /\ IsHttp(r)
        /\ \/ ~PrivateMode /\ Http(r).path \in TranslationEndpoints \cup {<<"/">>}
           \/ PrivateMode /\ Http(r).path = <<"/">>
        => resp[r] # InvalidAccessToken

\* The step in which translate is called with an empty or absent text.
C3_Step ==
    \A r \in Reqs :
        /\ pc[r] = "idle" /\ pc'[r] # "idle"
        /\ req'[r].args.called
        /\ EmptyOrAbsent(req'[r].args.translateText)
        => /\ pc'[r] = "done"
           /\ res'[r] = [kind |-> "returned",
                         value |-> [code |-> 400,
                                    message |-> "No text to translate.",
                                    cached |-> FALSE]]
           /\ ~ops'[r].lookup /\ ~ops'[r].hit /\ ~ops'[r].backend /\ ~ops'[r].store
           /\ posted'[r] = NoPost
           /\ cache' = cache /\ pending' = pending
\* C3: a call of translate with an empty or absent text ends at once with
\* {code: 400, message: "No text to translate.", cached: false}, whatever the
\* other arguments, with no cache lookup, no store and no backend call, and
\* the cache as it was.
C3_EmptyTextIs400 == [][C3_Step]_vars

\* C3's case: an empty text, the cache asked for and a session credential
\* given, and an entry in the cache.
C3_Witness ==
    \E r \in Reqs :
        /\ pc[r] = "done" /\ Called(r)
        /\ Arg(r).translateText = S(<<>>)
        /\ Arg(r).useCache /\ Arg(r).dlSession = "sess"
        /\ res[r].kind = "returned" /\ Value(r).code = 400
        /\ cache # {}

\* A returned result is marked cached exactly when it was read from the cache.
C4_Inv ==
    \A r \in Reqs :
        pc[r] = "done" /\ Called(r) /\ res[r].kind = "returned"
        => /\ Value(r).cached <=> ops[r].hit
           /\ ops[r].hit => ~ops[r].backend /\ ~ops[r].store
           /\ ops[r].backend => ~Value(r).cached
\* The step in which a lookup settles while the key has an entry.
C4_Step ==
    \A r \in Reqs :
        /\ pc[r] = "match" /\ pc'[r] # "match"
        /\ \E e \in cache : e.key = KeyOf(Arg(r))
        => /\ pc'[r] = "done"
           /\ \E e \in cache :
                /\ e.key = KeyOf(Arg(r))
                /\ res'[r] = [kind |-> "returned",
                              value |-> [e.val EXCEPT !.cached = TRUE]]
           /\ cache' = cache /\ pending' = pending
\* C4: a returned result has cached = true exactly when it was read from the
\* cache; with the cache in use and an entry under the key, the stored result
\* is returned with cached forced to true, with no backend call and no store;
\* what a backend call or an error path produces has cached = false.
C4_CachedIffFromCache == [](C4_Inv) /\ [][C4_Step]_vars

\* C4's case: a request served from the cache.
C4_Witness ==
    \E r \in Reqs :
        /\ pc[r] = "done" /\ Called(r) /\ Arg(r).useCache
        /\ ops[r].hit /\ res[r].kind = "returned"
        /\ Value(r).cached /\ Value(r).code = 200

\* A step of a request whose cache policy is disabled: its call, and the
\* return of its backend call.
C5_Step ==
    \A r \in Reqs :
        /\ pc[r] \in {"idle", "fetch"} /\ pc'[r] # pc[r]
        /\ req'[r].args.called /\ ~req'[r].args.useCache
        => /\ cache' = cache /\ pending' = pending
           /\ pc'[r] # "match"
           /\ ~ops'[r].lookup /\ ~ops'[r].hit /\ ~ops'[r].store
           /\ res'[r].kind = "returned" => ~res'[r].value.cached
\* C5: a request whose cache policy is disabled makes no cache lookup and no
\* cache store: none of its steps changes the cache or detaches a store,
\* whatever the backend answers, and its result does not come from the cache.
C5_NoCacheWhenDisabled == [][C5_Step]_vars

\* C5's case: a successful request without the cache while the cache holds
\* an entry for its key.
C5_Witness ==
    \E r \in Reqs :
        /\ pc[r] = "done" /\ Called(r) /\ ~Arg(r).useCache
        /\ res[r].kind = "returned" /\ Value(r).code = 200
        /\ ops[r].backend
        /\ \E e \in cache : e.key = KeyOf(Arg(r))

\* What is stored or being stored is a success; a request that ends with
\* another code has detached no store.
C6_Inv ==
    /\ \A e \in cache \cup pending : e.val.code = 200 /\ e.val.cached = FALSE
    /\ \A r \in Reqs :
           pc[r] = "done" /\ res[r].kind = "returned" /\ Value(r).code # 200
           => ~ops[r].store
\* The return of a backend call that ends with another code than 200.
C6_Step ==
    \A r \in Reqs :
        /\ pc[r] = "fetch" /\ pc'[r] = "done"
        /\ res'[r].value.code # 200
        => cache' = cache /\ pending' = pending
\* C6: every entry of the cache is a result with code 200 stored with
\* cached = false; a request whose backend call ends in 429, another non-2xx
\* status, an error object, no text results or an exception writes nothing.
C6_OnlySuccessCached == [](C6_Inv) /\ [][C6_Step]_vars

\* C6's case: a request with the cache in use was throttled, and a lookup
\* of its key misses, while another key has its entry.
C6_Witness ==
    \E r \in Reqs :
        /\ pc[r] = "done" /\ Called(r) /\ Arg(r).useCache
        /\ ops[r].backend /\ ops[r].reply.status = 429
        /\ Value(r).code = 429
        /\ cache # {}
        /\ ~\E e \in cache : e.key = KeyOf(Arg(r))

C7_Step ==
    \A r1, r2 \in Reqs :
        /\ r1 \in after[r2] /\ Success(r1)
        /\ pc[r2] = "match" /\ pc'[r2] # "match"
        /\ Arg(r2) = Arg(r1)
        /\ \E e \in cache : e.key = KeyOf(Arg(r1)) /\ e.val.data = Value(r1).data
        => /\ pc'[r2] = "done"
           /\ res'[r2].kind = "returned"
           /\ res'[r2].value.cached
           /\ res'[r2].value.code = 200
           /\ res'[r2].value.data = Value(r1).data
C8_CachePolicy ==
    \A r \in Reqs :
        IsHttp(r) /\ Called(r)
        => LET cacheField == Http(r).body.cache
               path == Http(r).path
           IN  /\ cacheField = "true" => Arg(r).useCache
               /\ cacheField = "false" => ~Arg(r).useCache
               /\ cacheField = UNDEFINED
                    /\ path \in {<<"/translate">>, <<"/v2/translate">>}
                  => (Arg(r).useCache <=> ~PrivateMode)
               /\ cacheField = UNDEFINED /\ path = <<"/v1/translate">>
                  => ~Arg(r).useCache

\* C8's case: private mode, an authorised request to /translate with no
\* cache field, dispatched without the cache.
C8_Witness ==
    \E r \in Reqs :
        /\ IsHttp(r) /\ Called(r) /\ PrivateMode
        /\ Http(r).path = <<"/translate">>
        /\ Http(r).body.cache = UNDEFINED
        /\ ~Arg(r).useCache /\ pc[r] = "done" /\ ~ops[r].lookup
        /\ ops[r].backend

\* C9: the code of the result follows the backend's reply: 500 for a
\* network fault, the backend's status for 429 and every other non-2xx, 500
\* for a 2xx body that does not parse, carries an error object or has no
\* text results, 200 otherwise; a result with another code than 200 has a
\* message and cached = false.
C9_CodeFollowsBackend ==
    \A r \in Reqs :
        pc[r] = "done" /\ Called(r) /\ ops[r].backend
        => LET o == ops[r].reply IN
           /\ res[r].kind = "returned"
           /\ Value(r).code =
                IF o.fault THEN 500
                ELSE IF o.status = 429 THEN 429
                ELSE IF o.status < 200 \/ o.status > 299 THEN o.status
                ELSE IF ~o.parses THEN 500
                ELSE IF o.error # UNDEFINED THEN 500
                ELSE IF Len(o.texts) = 0 THEN 500
                ELSE 200
           /\ Value(r).code # 200
                => "message" \in DOMAIN Value(r) /\ Value(r).cached = FALSE

\* C9's case: a 2xx reply that carries an error object and text results.
C9_Witness ==
    \E r \in Reqs :
        /\ pc[r] = "done" /\ Called(r) /\ ops[r].backend
        /\ ops[r].reply.status = 200 /\ ops[r].reply.error # UNDEFINED
        /\ ops[r].reply.texts # <<>>
        /\ Value(r).code = 500

\* C10: every call of translate ends by returning a result; nothing is
\* thrown to the caller, whatever arguments are present or absent.
C10_AlwaysReturns ==
    \A r \in Reqs : pc[r] = "done" /\ Called(r) => res[r].kind = "returned"

\* C11: every code-200 result translate returns has method "Pro" exactly
\* when the call was made with a non-empty session credential and "Free"
\* otherwise, whether the result comes from the backend or from the cache.
C11_MethodFollowsSession ==
    \A r \in Reqs :
        Success(r)
        => (Value(r).method = "Pro" <=> Arg(r).dlSession # "")
           /\ Value(r).method \in {"Pro", "Free"}

\* C12: with no session credential configured, every POST to /v1/translate
\* is answered 401 and nothing is dispatched for it: translate is not
\* called, and there is no cache lookup, no backend call and no store.
C12_NoSessionIs401 ==
    \A r \in Reqs :
        /\ pc[r] = "done" /\ IsHttp(r)
        /\ Http(r).method = "POST" /\ Http(r).path = <<"/v1/translate">>
        /\ env.DL_SESSION \in {UNDEFINED, ""}
        => /\ resp[r].kind = "response" /\ resp[r].status = 401
           /\ ~Called(r) /\ Untouched(r)

\* What /v2/translate is to dispatch for the text of a body: a list joined
\* with newlines, written out for the lists the requests carry.
C13_Joined(text) ==
    IF ~text.isArray THEN [def |-> text.def, s |-> text.s]
    ELSE IF text.items = <<>> THEN S(<<>>)
    ELSE IF text.items = << <<"h", "i">> >> THEN S(<<"h", "i">>)
    ELSE S(<<"h", "i", "\n", "y", "o">>)
\* The call and the response of a request to /v2/translate.
C13_Inv ==
    \A r \in Reqs :
        /\ IsHttp(r) /\ Called(r)
        /\ Http(r).method = "POST" /\ Http(r).path = <<"/v2/translate">>
        => /\ Arg(r).sourceLang = S(<<"a", "u", "t", "o">>)
           /\ Arg(r).translateText = C13_Joined(Http(r).body.text)
           /\ Arg(r).targetLang = Http(r).body.target_lang
           /\ pc[r] = "done" /\ res[r].kind = "returned"
              => IF Value(r).code = 200
                 THEN resp[r] =
                        [kind |-> "response", status |-> 200,
                         contentType |-> "application/json",
                         body |-> [translations |->
                                     <<[detected_source_language |->
                                            Value(r).source_lang,
                                        text |-> Value(r).data]>>,
                                   cached |-> Value(r).cached]]
                 ELSE resp[r] =
                        [kind |-> "response", status |-> Value(r).code,
                         contentType |-> "application/json",
                         body |-> Value(r)]
\* A request is dispatched once: what was dispatched for it stays as it is
\* until the request has ended.
C13_Step ==
    \A r \in Reqs : Called(r) /\ pc[r] # "done" => req'[r] = req[r]
\* C13: on /v2/translate a text list is joined with newlines into one string
\* that is dispatched once with source language auto; a code-200 result,
\* from the backend or from the cache, is answered HTTP 200 in the official
\* shape {translations: [{detected_source_language, text}], cached}, every
\* other result in the simple shape with the result's code as the status.
C13_V2JoinsAndShapes == [](C13_Inv) /\ [][C13_Step]_vars

\* C13's case: a list of two texts was joined, the joined text served from
\* the cache, and the answer is in the official shape with cached = TRUE.
C13_Witness ==
    \E r \in Reqs :
        /\ IsHttp(r) /\ Called(r) /\ pc[r] = "done"
        /\ Http(r).path = <<"/v2/translate">>
        /\ Http(r).body.text.isArray /\ Len(Http(r).body.text.items) = 2
        /\ Arg(r).translateText = S(<<"h", "i", "\n", "y", "o">>)
        /\ ops[r].hit
        /\ resp[r].status = 200 /\ resp[r].body.cached
        /\ DOMAIN resp[r].body = {"translations", "cached"}

\* C14: every response to a POST on one of the three translation endpoints,
\* the 401 rejections and the other error responses included, is declared
\* with a JSON content type, and its status is the code of the result it
\* carries.
C14_JsonAndStatusIsCode ==
    \A r \in Reqs :
        /\ pc[r] = "done" /\ IsHttp(r) /\ Http(r).method = "POST"
        /\ Http(r).path \in TranslationEndpoints
        /\ resp[r].kind = "response"
        => /\ resp[r].contentType = "application/json"
           /\ resp[r].status =
                IF "code" \in DOMAIN resp[r].body THEN resp[r].body.code
                ELSE Value(r).code

\* The cache holds one entry per key, each a success result as a request
\* returned it; a request that missed has made its own backend call and
\* returns what that call gave it, with cached = FALSE.
C15_Inv ==
    /\ \A e1, e2 \in cache : e1.key = e2.key => e1 = e2
    /\ \A e \in cache \cup pending :
         /\ e.val.code = 200 /\ e.val.cached = FALSE
         /\ e.val.data \in Translations
    /\ \A r \in Reqs :
         pc[r] = "done" /\ Called(r) /\ ops[r].lookup /\ ~ops[r].hit
         => /\ ops[r].backend
            /\ res[r].kind = "returned" /\ Value(r).cached = FALSE
            /\ Value(r).code = 200
               => /\ ops[r].reply.texts # <<>>
                  /\ Value(r).data = ops[r].reply.texts[1].text
\* A request that returns a success with the cache in use hands exactly its
\* own result to the store; a store that completes replaces the key's entry
\* with exactly the result it was handed, whatever the key held.
C15_Step ==
    /\ \A r \in Reqs :
         /\ pc[r] = "fetch" /\ pc'[r] = "done"
         /\ Arg(r).useCache /\ res'[r].value.code = 200
         => /\ pending' = pending \cup
                  {[key |-> KeyOf(Arg(r)), val |-> res'[r].value]}
            /\ cache' = cache
    /\ cache' # cache /\ pending' # pending
       => \E p \in pending :
            /\ pending' = pending \ {p}
            /\ {e \in cache' : e.key = p.key} = {p}
            /\ {e \in cache' : e.key # p.key} = {e \in cache : e.key # p.key}
\* C15: when two concurrent requests for one key both miss, each makes its
\* own backend call, returns its own result with cached = FALSE and stores
\* it; each store that completes makes the key's entry exactly the result of
\* the request it belongs to (the last write wins), and the cache never
\* holds a non-success or a mixed entry.
C15_LastWriteWins == [](C15_Inv) /\ [][C15_Step]_vars

\* C15's case: two requests in flight together both missed, both called the
\* backend and got different texts, both stored, both stores have settled
\* and the key's entry is the result of one of them.
C15_Witness ==
    \E r1, r2 \in Reqs :
        /\ r1 # r2 /\ r1 \notin after[r2] /\ r2 \notin after[r1]
        /\ Success(r1) /\ Success(r2) /\ Arg(r1) = Arg(r2)
        /\ ops[r1].lookup /\ ~ops[r1].hit /\ ops[r1].backend /\ ops[r1].store
        /\ ops[r2].lookup /\ ~ops[r2].hit /\ ops[r2].backend /\ ops[r2].store
        /\ Value(r1).data # Value(r2).data
        /\ pending = {}
        /\ \E e \in cache : e.key = KeyOf(Arg(r1)) /\ e.val = Value(r2)

\* The return of a successful backend call with the cache in use: the
\* request has its code-200 result in the step that hands the store over,
\* the store being still unsettled and the cache as it was.
C16_Return ==
    \A r \in Reqs :
        /\ pc[r] = "fetch" /\ pc'[r] # "fetch"
        /\ Arg(r).useCache
        /\ ops'[r].reply.status = 200 /\ ops'[r].reply.parses
        /\ ops'[r].reply.error = UNDEFINED /\ ops'[r].reply.texts # <<>>
        => /\ pc'[r] = "done"
           /\ res'[r].kind = "returned" /\ res'[r].value.code = 200
           /\ res'[r].value.data = ops'[r].reply.texts[1].text
           /\ [key |-> KeyOf(Arg(r)), val |-> res'[r].value] \in pending'
           /\ cache' = cache
\* What a request has returned stays what it is, whatever becomes of the
\* stores: a step that settles a store, completed or failed, changes no
\* request's result, response or position.
C16_Settle ==
    /\ \A r \in Reqs :
         pc[r] = "done" /\ pc'[r] = "done" => res'[r] = res[r] /\ resp'[r] = resp[r]
    /\ pending' # pending /\ pending' \subseteq pending
       => res' = res /\ resp' = resp /\ pc' = pc
\* C16: the store is detached from the response: a successful backend call
\* with the cache in use returns its code-200 result without waiting for the
\* store, the returned result is the same whether the store then completes,
\* fails or stays unsettled, and a failed store is never turned into an
\* error result.
C16_StoreDetached == [][C16_Return /\ C16_Settle]_vars

\* C16's case: a request has returned its success while its store is still
\* unsettled.
C16_Witness ==
    \E r \in Reqs :
        /\ Success(r) /\ ops[r].store /\ ~Value(r).cached
        /\ [key |-> KeyOf(Arg(r)), val |-> Value(r)] \in pending
        /\ ~\E e \in cache : e.key = KeyOf(Arg(r))

\* C17: the cache key is an injective function of the normalised triple
\* (source language, target language, text): two triples have the same key
\* exactly when they are the same triple.
C17_KeyInjective ==
    calc.fn = "cacheKey" /\ calc.out # <<>>
    => (calc.out[1] = calc.out[2] <=> calc.in[1] = calc.in[2])

\* A source language that reads "auto" in any mix of upper and lower case.
C18_IsAuto(s) ==
    /\ Len(s) = 4
    /\ s[1] \in {"a", "A"} /\ s[2] \in {"u", "U"}
    /\ s[3] \in {"t", "T"} /\ s[4] \in {"o", "O"}
\* A language code in upper case, letter by letter.
C18_Upper(s) ==
    [k \in 1..Len(s) |->
        CASE s[k] \in {"f", "F"} -> "F" [] s[k] \in {"r", "R"} -> "R"
          [] s[k] \in {"j", "J"} -> "J" [] s[k] \in {"a", "A"} -> "A"
          [] s[k] \in {"u", "U"} -> "U" [] s[k] \in {"t", "T"} -> "T"
          [] s[k] \in {"o", "O"} -> "O" [] OTHER -> s[k]]
\* C18: the final source language is "EN" when sourceLang is absent or is
\* "auto" in any case, and sourceLang in upper case otherwise; the final
\* target language is targetLang in upper case; the cache key and the
\* envelope sent to the backend are made of these two values.
C18_LanguagesNormalized ==
    calc.fn = "lang" /\ calc.out # <<>>
    => LET sl == calc.in.sourceLang
           src == IF ~sl.def \/ sl.s = <<>> \/ C18_IsAuto(sl.s)
                  THEN <<"E", "N">> ELSE C18_Upper(sl.s)
           tgt == C18_Upper(calc.in.targetLang.s)
       IN  /\ calc.out.finalSourceLang = src
           /\ calc.out.finalTargetLang = tgt
           /\ calc.out.postData.source_lang_user_selected = src
           /\ calc.out.postData.target_lang = tgt
           /\ calc.out.cacheKey =
                <<"https://deeplx.cache", "/">> \o src \o <<"/">> \o tgt
                    \o <<"/", "h", "i">>

\* The number of lower-case 'i' characters of a text.
C19_Count(text) == Cardinality({k \in 1..Len(text) : text[k] = "i"})
\* C19: with m the number of lower-case 'i' characters of the text (an
\* upper-case 'I' is not counted) and ts the current time, the timestamp
\* sent to the backend is ts when m = 0 and ts - (ts mod (m+1)) + (m+1)
\* when m > 0; then it is divisible by m+1, greater than ts and at most
\* ts + (m+1).
C19_TimestampFromICount ==
    calc.fn = "timestamp" /\ calc.out # <<>>
    => LET m == C19_Count(calc.in.translateText.s)
           ts == calc.in.ts
           t == calc.out.postData.timestamp
       IN  /\ calc.out.iCount = m
           /\ calc.out.timestamp = t
           /\ m = 0 => t = ts
           /\ m > 0 => /\ t = ts - (ts % (m + 1)) + (m + 1)
                       /\ t % (m + 1) = 0
                       /\ t > ts /\ t <= ts + (m + 1)

\* C19's case: a text with lower-case and upper-case i, at a time that is
\* not a multiple of m+1, so that the timestamp is moved by less than m+1.
C19_Witness ==
    /\ calc.fn = "timestamp" /\ calc.out # <<>>
    /\ calc.in.translateText.s = <<"i", "i", "I", "i", "i">>
    /\ calc.out.iCount = 4
    /\ calc.in.ts = 12 /\ calc.out.postData.timestamp = 15

\* The places of a body where the method key prefix "method":" stands.
C20_Places(body) ==
    {k \in 1..(Len(body) - 4) :
        /\ body[k] = "\"" /\ body[k + 1] = "method" /\ body[k + 2] = "\""
        /\ body[k + 3] = ":" /\ body[k + 4] = "\""}
\* C20: in the body sent to the backend the first "method":" of the
\* serialised envelope has become "method" : " when (id + 5) mod 29 = 0 or
\* (id + 3) mod 13 = 0, and "method": " otherwise; for every id and text
\* exactly one occurrence is rewritten, the one of the envelope's own method
\* key (the one before "LMT_handle_texts"), never one in the text, and the
\* rest of the body is as it was serialised.
C20_MethodKeyRewritten ==
    calc.fn = "body" /\ calc.out # <<>>
    => LET raw == calc.out.postStr
           body == calc.out.body
           id == calc.out.id
           new == IF (id + 5) % 29 = 0 \/ (id + 3) % 13 = 0
                  THEN <<"\"", "method", "\"", " ", ":", " ", "\"">>
                  ELSE <<"\"", "method", "\"", ":", " ", "\"">>
           k == CHOOSE k \in C20_Places(raw) : \A j \in C20_Places(raw) : k <= j
       IN  /\ C20_Places(raw) # {}
           /\ raw[k + 5] = "LMT_handle_texts"
           /\ SubSeq(body, 1, k - 1) = SubSeq(raw, 1, k - 1)
           /\ SubSeq(body, k, k + Len(new) - 1) = new
           /\ SubSeq(body, k + Len(new), Len(body)) = SubSeq(raw, k + 5, Len(raw))
           /\ Cardinality(C20_Places(body)) = Cardinality(C20_Places(raw)) - 1

\* C20's case: the id satisfies the condition on 13 only, the text holds
\* the method key prefix, and the body has the spaces around the colon.
C20_Witness ==
    /\ calc.fn = "body" /\ calc.out # <<>>
    /\ (calc.out.id + 3) % 13 = 0 /\ (calc.out.id + 5) % 29 # 0
    /\ calc.in.translateText.s = <<"\"", "method", "\"", ":", "\"">>
    /\ SubSeq(calc.out.body, 10, 16) = <<"\"", "method", "\"", " ", ":", " ", "\"">>

====
